---- MODULE Spec2Model ----
(***************************************************************************)
(* Avatar service: the user table, the upload directory and the three      *)
(* mutating request handlers of main.py (create_user, upload_user_avatar,  *)
(* delete_user_avatar) over LocalAvatarStorage of storage.py.              *)
(*                                                                         *)
(* Every request runs in a handler slot.  A handler is cut into steps at   *)
(* the points where it touches shared state (the user table, the disk):    *)
(*   create_user         lookup by username | insert + commit              *)
(*   upload_user_avatar  session.get | read body + storage.upload_avatar   *)
(*                       | delete old file | commit (+ compensation)       *)
(*   delete_user_avatar  session.get | storage.delete_avatar | commit      *)
(* A step is atomic; steps of different slots interleave freely.           *)
(* File-system calls and database commits may fail; the outcome is drawn   *)
(* by the environment in the step that makes the call.                     *)
(***************************************************************************)
EXTENDS Integers, Sequences, FiniteSets, TLC

\* ------------------------------------------------------------------ bounds
\* Number of file names uuid4() hands out in one run.
MaxFiles == 3

\* settings.MAX_AVATAR_SIZE (bytes); buffers are drawn around it.
MaxAvatarSize == 2

\* ------------------------------------------------------------- value sets
Procs == {1, 2}
UserIds == {1, 2}
Usernames == {"alice", "bob"}

\* user.avatar_path = None
NoPath == <<>>
\* an avatar_path string sent by the client in the create-user body; it
\* names no file the store ever wrote
ClientPath == <<"client">>

allowed_mime_types == {"image/jpeg", "image/png", "image/gif", "image/jpg"}

\* magic.from_buffer raised
SniffError == "sniff-error"
MimeTypes == {"image/png", "text/plain", SniffError}
Sizes == {MaxAvatarSize, MaxAvatarSize + 1}
FileContents == [size : Sizes, mime : MimeTypes]
NoContent == [size |-> 0, mime |-> ""]

mime_to_ext(mime_type) ==
    CASE mime_type = "image/jpeg" -> "jpg"
      [] mime_type = "image/png" -> "png"
      [] mime_type = "image/gif" -> "gif"
      [] mime_type = "image/jpg" -> "jpg"
      [] OTHER -> "jpg"

\* "avatars/<user_id>/<uuid>.<ext>"
relative_path(user_id, uuid, ext) == <<"avatars", user_id, uuid, ext>>

Http(status, detail) == [status |-> status, detail |-> detail, avatar_path |-> NoPath]
NoResp == Http(0, "")
NoUser == [username |-> "", avatar_path |-> NoPath]

VARIABLES
    users,       \* the user table: id -> [username, avatar_path]
    disk,        \* relative paths of the files under the upload root
    uuids,       \* file names handed out so far
    frame,       \* per slot: the running handler's position and locals
                 \* (user: the row as session.get loaded it)
    lastCommit   \* slot whose upload commit was applied last (0: none in flight)

vars == <<users, disk, uuids, frame, lastCommit>>

IdleFrame ==
    [pc |-> "idle", op |-> "none", user_id |-> 0, user |-> NoUser,
     file_content |-> NoContent, new_avatar_path |-> NoPath,
     resp |-> NoResp, fault |-> {}]

Init ==
    /\ users = << >>
    /\ disk = {}
    /\ uuids = 0
    /\ frame = [p \in Procs |-> IdleFrame]
    /\ lastCommit = 0

Idle(p) == frame[p].pc = "idle"

\* raise HTTPException(...) / return: the handler ends with a response
Done(p, f, resp) ==
    frame' = [frame EXCEPT ![p] = [f EXCEPT !.pc = "done", !.resp = resp]]

Goto(p, f, pc) ==
    frame' = [frame EXCEPT ![p] = [f EXCEPT !.pc = pc]]

\* ----------------------------------------------------------- create_user
UserBodies == [id : UserIds, username : Usernames, avatar_path : {NoPath, ClientPath}]

UsernameTaken(name) == \E u \in DOMAIN users : users[u].username = name

create_user_check(p, body) ==
    /\ Idle(p)
    /\ LET f == [frame[p] EXCEPT !.op = "create", !.user_id = body.id,
                     !.user = [username |-> body.username,
                               avatar_path |-> body.avatar_path]]
       IN IF UsernameTaken(body.username)
          THEN Done(p, f, Http(400, "DuplicateUsername"))
          ELSE Goto(p, f, "create_commit")
    /\ UNCHANGED <<users, disk, uuids, lastCommit>>

\* the table's constraints: primary key on id, unique index on username
InsertAllowed(id, name) == id \notin DOMAIN users /\ ~UsernameTaken(name)

create_user_commit(p, db_ok) ==
    /\ frame[p].pc = "create_commit"
    /\ LET f == frame[p]
       IN IF ~db_ok
          THEN /\ Done(p, [f EXCEPT !.fault = {"commit"}], Http(500, "PersistenceFailure"))
               /\ UNCHANGED users
          ELSE IF ~InsertAllowed(f.user_id, f.user.username)
          THEN /\ Done(p, f, Http(500, "IntegrityError"))
               /\ UNCHANGED users
          ELSE /\ users' = [u \in DOMAIN users \cup {f.user_id} |->
                               IF u = f.user_id THEN f.user ELSE users[u]]
               /\ Done(p, f, Http(200, "ok"))
    /\ UNCHANGED <<disk, uuids, lastCommit>>

\* ------------------------------------------------- LocalAvatarStorage
\* variant: the size limit taken as exclusive (>= for >)
_validate_file_exclusive(file_content) ==
    IF file_content.size >= MaxAvatarSize THEN "PayloadTooLarge"
    ELSE IF file_content.mime = SniffError THEN "TypeSniffFailure"
    ELSE IF file_content.mime \notin allowed_mime_types THEN "UnsupportedMediaType"
    ELSE "ok"

\* the size check comes first, then the sniff, then the
\* allow-list; "ok" stands for the returned mime type being accepted
_validate_file(file_content) ==
    IF file_content.size > MaxAvatarSize THEN "PayloadTooLarge"
    ELSE IF file_content.mime = SniffError THEN "TypeSniffFailure"
    ELSE IF file_content.mime \notin allowed_mime_types THEN "UnsupportedMediaType"
    ELSE "ok"

\* open(file_path, "wb") + f.write: written, failed before the file was
\* created, or failed after open() created it (a partial file stays)
WriteOutcomes == {"written", "failed", "partial"}

\* upload_avatar: validate, allocate "<uuid>.<ext>" under the user's
\* directory, write.  Yields the error raised (NoResp when none), the
\* relative path returned, and the disk and the uuid count afterwards.
\* The file is written where delete_avatar looks for the returned path
\* (UPLOAD_DIR is ".../avatars", as main.py's static mount assumes).
upload_avatar(user_id, file_content, wr) ==
    LET verdict == _validate_file(file_content)
        path == relative_path(user_id, uuids + 1, mime_to_ext(file_content.mime))
    IN IF verdict # "ok"
       THEN [err |-> Http(400, verdict), path |-> NoPath, disk |-> disk, uuids |-> uuids]
       ELSE IF wr = "written"
       THEN [err |-> NoResp, path |-> path, disk |-> disk \cup {path}, uuids |-> uuids + 1]
       ELSE [err |-> Http(500, "WriteFailure"), path |-> NoPath,
             disk |-> IF wr = "partial" THEN disk \cup {path} ELSE disk,
             uuids |-> uuids + 1]

\* variant: a missing file is not an error (the else branch dropped)
delete_avatar_missing_ok(path, rm_ok) ==
    IF path \in disk /\ ~rm_ok
    THEN [err |-> Http(500, "DeleteFailure"), disk |-> disk]
    ELSE [err |-> NoResp, disk |-> disk \ {path}]

\* delete_avatar: 404 when the file is absent, 500 when os.remove raises
delete_avatar(path, rm_ok) ==
    IF path \in disk
    THEN IF rm_ok
         THEN [err |-> NoResp, disk |-> disk \ {path}]
         ELSE [err |-> Http(500, "DeleteFailure"), disk |-> disk]
    ELSE [err |-> Http(404, "NotFound"), disk |-> disk]

\* os.remove raised in delete_avatar(path, rm_ok)
RemoveFault(path, rm_ok) == IF path \in disk /\ ~rm_ok THEN {"remove"} ELSE {}

\* ---------------------------------------------------- upload_user_avatar
\* 1. user = session.get(User, user_id)
upload_get_user(p, user_id) ==
    /\ Idle(p)
    /\ LET f == [frame[p] EXCEPT !.op = "upload", !.user_id = user_id]
       IN IF user_id \notin DOMAIN users
          THEN Done(p, f, Http(404, "UserNotFound"))
          ELSE Goto(p, [f EXCEPT !.user = users[user_id]], "upload_store")
    /\ UNCHANGED <<users, disk, uuids, lastCommit>>

\* 2. file.file.read()   3. storage.upload_avatar(user_id, file_content)
upload_store(p, read_ok, file_content, wr) ==
    /\ frame[p].pc = "upload_store"
    /\ LET f == frame[p]
           up == upload_avatar(f.user_id, file_content, wr)
       IN IF ~read_ok
          THEN /\ Done(p, [f EXCEPT !.fault = {"read"}], Http(500, "ReadFailure"))
               /\ UNCHANGED <<disk, uuids>>
          ELSE /\ up.uuids <= MaxFiles
               /\ disk' = up.disk
               /\ uuids' = up.uuids
               /\ IF up.err # NoResp
                  THEN Done(p, [f EXCEPT !.file_content = file_content,
                                         !.fault = IF up.err.status = 500
                                                   THEN {"write"} ELSE {}],
                            up.err)
                  ELSE Goto(p, [f EXCEPT !.file_content = file_content,
                                         !.new_avatar_path = up.path],
                            "upload_delete_old")
    /\ UNCHANGED <<users, lastCommit>>

\* variant: the old avatar is never deleted (step 4 dropped)
HasOldAvatarNever(p) == FALSE

\* if user.avatar_path:
HasOldAvatar(p) == frame[p].user.avatar_path # NoPath

\* variant: the old path is read again from the table at deletion time
OldAvatarPathReread(p) == users[frame[p].user_id].avatar_path

\* the path handed to storage.delete_avatar before the commit
OldAvatarPath(p) == frame[p].user.avatar_path

\* 4. delete the old avatar, if the loaded user has one
upload_delete_old(p, rm_ok) ==
    /\ frame[p].pc = "upload_delete_old"
    /\ LET f == frame[p]
           del == delete_avatar(OldAvatarPath(p), rm_ok)
       IN IF ~HasOldAvatar(p)
          THEN /\ Goto(p, f, "upload_commit")
               /\ UNCHANGED disk
          ELSE /\ disk' = del.disk
               /\ IF del.err # NoResp
                  THEN Done(p, [f EXCEPT !.fault = RemoveFault(OldAvatarPath(p), rm_ok)],
                            del.err)
                  ELSE Goto(p, f, "upload_commit")
    /\ UNCHANGED <<users, uuids, lastCommit>>

\* variant: the except clause raises without deleting the new file
CompensateSkipped(p, rm_ok) ==
    [disk |-> disk, resp |-> Http(500, "PersistenceFailure")]

\* except: storage.delete_avatar(new_avatar_path), then the 500; an error
\* raised by delete_avatar itself replaces the 500 of the failed update
Compensate(p, rm_ok) ==
    LET del == delete_avatar(frame[p].new_avatar_path, rm_ok)
    IN [disk |-> del.disk,
        resp |-> IF del.err # NoResp THEN del.err ELSE Http(500, "PersistenceFailure")]

\* 5. user.avatar_path = new_avatar_path; add, commit, refresh
\*    (the UPDATE and the refresh's SELECT are taken as one step)
upload_commit(p, db_ok, rm_ok) ==
    /\ frame[p].pc = "upload_commit"
    /\ LET f == frame[p]
           u == f.user_id
           comp == Compensate(p, rm_ok)
       IN IF db_ok
          THEN /\ users' = [users EXCEPT ![u].avatar_path = f.new_avatar_path]
               /\ lastCommit' = p
               /\ Done(p, f, [Http(200, "ok") EXCEPT !.avatar_path = users'[u].avatar_path])
               /\ UNCHANGED disk
          ELSE /\ disk' = comp.disk
               /\ Done(p, [f EXCEPT !.fault = {"commit"} \cup
                                        RemoveFault(f.new_avatar_path, rm_ok)],
                       comp.resp)
               /\ UNCHANGED <<users, lastCommit>>
    /\ UNCHANGED uuids

\* ---------------------------------------------------- delete_user_avatar
\* variant: "no avatar" answered like "not found"
NoAvatarStatusAsNotFound == 400 + 4

\* status of "the user has no avatar" (main.py raises it as a 400)
NoAvatarStatus == 400

delete_get_user(p, user_id) ==
    /\ Idle(p)
    /\ LET f == [frame[p] EXCEPT !.op = "delete", !.user_id = user_id]
       IN IF user_id \notin DOMAIN users
          THEN Done(p, f, Http(404, "UserNotFound"))
          ELSE IF users[user_id].avatar_path = NoPath
          THEN Done(p, [f EXCEPT !.user = users[user_id]],
                    Http(NoAvatarStatus, "NoAvatar"))
          ELSE Goto(p, [f EXCEPT !.user = users[user_id]], "delete_file")
    /\ UNCHANGED <<users, disk, uuids, lastCommit>>

\* storage.delete_avatar(user.avatar_path)
delete_file(p, rm_ok) ==
    /\ frame[p].pc = "delete_file"
    /\ LET f == frame[p]
           del == delete_avatar(f.user.avatar_path, rm_ok)
       IN /\ disk' = del.disk
          /\ IF del.err # NoResp
             THEN Done(p, [f EXCEPT !.fault = RemoveFault(f.user.avatar_path, rm_ok)],
                       del.err)
             ELSE Goto(p, f, "delete_commit")
    /\ UNCHANGED <<users, uuids, lastCommit>>

\* user.avatar_path = None; add, commit, refresh (no except clause: a
\* failed commit surfaces as a 500)
delete_commit(p, db_ok) ==
    /\ frame[p].pc = "delete_commit"
    /\ LET f == frame[p]
           u == f.user_id
       IN IF db_ok
          THEN /\ users' = [users EXCEPT ![u].avatar_path = NoPath]
               /\ Done(p, f, Http(200, "ok"))
          ELSE /\ Done(p, [f EXCEPT !.fault = {"commit"}], Http(500, "PersistenceFailure"))
               /\ UNCHANGED users
    /\ UNCHANGED <<disk, uuids, lastCommit>>

\* the response has been sent; the slot takes the next request
Finish(p) ==
    /\ frame[p].pc = "done"
    /\ frame' = [frame EXCEPT ![p] = IdleFrame]
    /\ lastCommit' = IF lastCommit = p THEN 0 ELSE lastCommit
    /\ UNCHANGED <<users, disk, uuids>>

\* one step of the handler running in slot p
Step(p) ==
    \/ \E body \in UserBodies : create_user_check(p, body)
    \/ \E db_ok \in BOOLEAN : create_user_commit(p, db_ok)
    \/ \E user_id \in UserIds : upload_get_user(p, user_id)
    \/ \E read_ok \in BOOLEAN, file_content \in FileContents, wr \in WriteOutcomes :
           upload_store(p, read_ok, file_content, wr)
    \/ \E rm_ok \in BOOLEAN : upload_delete_old(p, rm_ok)
    \/ \E db_ok \in BOOLEAN, rm_ok \in BOOLEAN : upload_commit(p, db_ok, rm_ok)
    \/ \E user_id \in UserIds : delete_get_user(p, user_id)
    \/ \E rm_ok \in BOOLEAN : delete_file(p, rm_ok)
    \/ \E db_ok \in BOOLEAN : delete_commit(p, db_ok)
    \/ Finish(p)

\* requests served concurrently, one per slot
Next == \E p \in Procs : Step(p)

Spec == Init /\ [][Next]_vars

\* requests served one after the other
SeqNext == Step(1)

SeqSpec == Init /\ [][SeqNext]_vars

\* create-user requests only, served concurrently
CreateNext ==
    \E p \in Procs :
        \/ \E body \in UserBodies : create_user_check(p, body)
        \/ \E db_ok \in BOOLEAN : create_user_commit(p, db_ok)
        \/ Finish(p)

CreateSpec == Init /\ [][CreateNext]_vars

\* two upload requests for one user, each served once, racing
RaceUser == CHOOSE u \in UserIds : \A v \in UserIds : u <= v
RacePrior == relative_path(RaceUser, 1, "png")

\* the user exists, with no avatar yet or with one uploaded before
RaceInit ==
    \E prior \in BOOLEAN :
        /\ users = (RaceUser :> [username |-> "alice",
                                 avatar_path |-> IF prior THEN RacePrior ELSE NoPath])
        /\ disk = IF prior THEN {RacePrior} ELSE {}
        /\ uuids = IF prior THEN 1 ELSE 0
        /\ frame = [p \in Procs |-> IdleFrame]
        /\ lastCommit = 0

RaceNext ==
    \E p \in Procs :
        \/ upload_get_user(p, RaceUser)
        \/ \E read_ok \in BOOLEAN, file_content \in FileContents, wr \in WriteOutcomes :
               upload_store(p, read_ok, file_content, wr)
        \/ \E rm_ok \in BOOLEAN : upload_delete_old(p, rm_ok)
        \/ \E db_ok \in BOOLEAN, rm_ok \in BOOLEAN : upload_commit(p, db_ok, rm_ok)

RaceSpec == RaceInit /\ [][RaceNext]_vars

\* ------------------------------------------------------------ properties
UploadDone(p) == frame[p].pc = "done" /\ frame[p].op = "upload"
DeleteDone(p) == frame[p].pc = "done" /\ frame[p].op = "delete"
CreateDone(p) == frame[p].pc = "done" /\ frame[p].op = "create"

\* slot p took the step
Moved(p) == frame'[p] # frame[p]

\* a path the store allocated (not the client's string, not None)
Stored(path) == path # NoPath /\ path # ClientPath

Referenced(path) == \E u \in DOMAIN users : users[u].avatar_path = path

\* no request is between two of its steps
Quiescent == \A p \in Procs : frame[p].pc \in {"idle", "done"}

\* C1 (sequential requests): an upload that returns 200 for a user whose
\* loaded row named an earlier avatar leaves that old file off the disk, the
\* new file on the disk, and the row (and the response) naming the new path.
C1_SequentialReplace ==
    \A p \in Procs :
        (UploadDone(p) /\ frame[p].resp.status = 200 /\ frame[p].user.avatar_path # NoPath)
        => /\ frame[p].user.avatar_path \notin disk
           /\ frame[p].new_avatar_path \in disk
           /\ users[frame[p].user_id].avatar_path = frame[p].new_avatar_path
           /\ frame[p].resp.avatar_path = frame[p].new_avatar_path
           /\ frame[p].new_avatar_path # frame[p].user.avatar_path

C1_Witness ==
    \E p \in Procs :
        /\ UploadDone(p) /\ frame[p].resp.status = 200
        /\ Stored(frame[p].user.avatar_path)

\* C2 (sequential requests), as claimed: when the commit of a replacing
\* upload fails (and the compensating delete works), the new file is gone,
\* the old file is still on the disk and the row still names it.
C2_PreviousStateIntact ==
    \A p \in Procs :
        (UploadDone(p) /\ frame[p].fault = {"commit"} /\ Stored(frame[p].user.avatar_path))
        => /\ frame[p].new_avatar_path \notin disk
           /\ frame[p].user.avatar_path \in disk
           /\ users[frame[p].user_id].avatar_path = frame[p].user.avatar_path

\* C3, as claimed: after an upload whose commit failed, the new file is not
\* on the disk.
C3_CompensationAlways ==
    \A p \in Procs :
        (UploadDone(p) /\ "commit" \in frame[p].fault)
        => frame[p].new_avatar_path \notin disk

\* C3, amended: after an upload whose commit failed and whose compensating
\* removal did not itself fail, the new file is not on the disk and the
\* response is the 500 of the failed update; when the removal fails too, the
\* response is the 500 of the failed delete and the new file is still there.
C3_Compensation ==
    \A p \in Procs :
        /\ (UploadDone(p) /\ frame[p].fault = {"commit"})
           => /\ frame[p].new_avatar_path \notin disk
              /\ frame[p].resp = Http(500, "PersistenceFailure")
        /\ (UploadDone(p) /\ frame[p].fault = {"commit", "remove"})
           => /\ frame[p].new_avatar_path \in disk
              /\ frame[p].resp = Http(500, "DeleteFailure")

C3_Witness ==
    \E p \in Procs :
        /\ UploadDone(p) /\ frame[p].fault = {"commit"}
        /\ frame[p].new_avatar_path # NoPath

\* the buffer's type is one the sniff returns and the allow-list lacks
OutsideAllowList(file_content) ==
    file_content.mime \notin allowed_mime_types \cup {SniffError}

\* the validation step of slot p ended the request on buffer c
ValidationEnded(p) ==
    /\ frame[p].pc = "upload_store"
    /\ frame'[p].pc = "done"
    /\ frame'[p].file_content # NoContent

NoTrace == disk' = disk /\ users' = users

\* C4, as claimed: every buffer over the size limit ends the upload with
\* PayloadTooLarge and every buffer whose type is outside the allow-list ends
\* it with UnsupportedMediaType, the disk and the user table untouched.
C4_ValidationAsClaimed ==
    [][\A p \in Procs :
          ValidationEnded(p) =>
             LET c == frame'[p].file_content
             IN /\ c.size > MaxAvatarSize
                   => frame'[p].resp = Http(400, "PayloadTooLarge") /\ NoTrace
                /\ OutsideAllowList(c)
                   => frame'[p].resp = Http(400, "UnsupportedMediaType") /\ NoTrace]_vars

\* C4, amended: a buffer over the size limit ends the upload with
\* PayloadTooLarge; a buffer within the limit whose type is outside the
\* allow-list ends it with UnsupportedMediaType; in both cases the step
\* leaves the disk and the user table as they were.
C4_ValidationNoTrace ==
    [][\A p \in Procs :
          ValidationEnded(p) =>
             LET c == frame'[p].file_content
             IN /\ c.size > MaxAvatarSize
                   => frame'[p].resp = Http(400, "PayloadTooLarge") /\ NoTrace
                /\ (c.size <= MaxAvatarSize /\ OutsideAllowList(c))
                   => frame'[p].resp = Http(400, "UnsupportedMediaType") /\ NoTrace]_vars

C4_Witness ==
    \E p \in Procs :
        /\ UploadDone(p) /\ frame[p].resp.detail \in {"PayloadTooLarge", "UnsupportedMediaType"}
        /\ frame[p].user_id \in DOMAIN users
        /\ Stored(users[frame[p].user_id].avatar_path)
        /\ disk # {}

\* C5: storage.delete_avatar on a path with no file answers 404 NotFound and
\* removes nothing (in delete-avatar and in the upload's delete of the old
\* file alike); delete-avatar for an existing user without avatar_path
\* answers NoAvatar; the failed delete-avatar request leaves the disk and the
\* user table as they were.
C5_DeleteErrors ==
    [][\A p \in Procs :
          /\ (Moved(p) /\ frame[p].pc = "delete_file" /\ frame[p].user.avatar_path \notin disk)
             => /\ frame'[p].pc = "done"
                /\ frame'[p].resp = Http(404, "NotFound")
                /\ NoTrace
          /\ (Moved(p) /\ frame[p].pc = "upload_delete_old"
                /\ frame[p].user.avatar_path # NoPath
                /\ frame[p].user.avatar_path \notin disk)
             => /\ frame'[p].pc = "done"
                /\ frame'[p].resp = Http(404, "NotFound")
                /\ NoTrace
          /\ (Moved(p) /\ frame[p].pc = "idle" /\ frame'[p].op = "delete"
                /\ frame'[p].user_id \in DOMAIN users
                /\ users[frame'[p].user_id].avatar_path = NoPath)
             => /\ frame'[p].pc = "done"
                /\ frame'[p].resp.detail = "NoAvatar"
                /\ NoTrace]_vars

C5_Witness ==
    \E p \in Procs :
        /\ DeleteDone(p) /\ frame[p].resp.detail = "NotFound"
        /\ Stored(frame[p].user.avatar_path)
        /\ disk # {}

\* what the first step of delete-avatar answers when the user is missing or
\* has no avatar_path, what the second answers when the file is missing, and
\* what the last answers: 200 with the file gone and the row cleared, and
\* nothing but 200 when it changed the table
DeleteStatuses(noAvatar) ==
    \A p \in Procs :
          /\ (Moved(p) /\ frame[p].pc = "idle" /\ frame'[p].op = "delete")
             => /\ frame'[p].user_id \notin DOMAIN users
                   => frame'[p].pc = "done" /\ frame'[p].resp.status = 404
                /\ (frame'[p].user_id \in DOMAIN users
                      /\ users[frame'[p].user_id].avatar_path = NoPath)
                   => frame'[p].pc = "done" /\ frame'[p].resp.status = noAvatar
          /\ (Moved(p) /\ frame[p].pc = "delete_file" /\ frame[p].user.avatar_path \notin disk)
             => frame'[p].pc = "done" /\ frame'[p].resp.status = 404
          /\ (Moved(p) /\ frame[p].pc = "delete_commit")
             => /\ frame'[p].pc = "done"
                /\ frame'[p].resp.status = 200
                   => /\ users'[frame[p].user_id].avatar_path = NoPath
                      /\ frame[p].user.avatar_path \notin disk'
                /\ frame'[p].resp.status # 200 => users' = users
                /\ users' # users => frame'[p].resp.status = 200

\* C6, as claimed: DELETE answers 200 when the avatar was deleted and 404
\* when the user is missing, has no avatar_path, or the file is missing.
C6_DeleteStatusAsClaimed == [][DeleteStatuses(404)]_vars

\* C6, amended: DELETE answers 200 when the avatar was deleted, 404 when the
\* user is missing or the recorded file is missing, and 400 when the user
\* has no avatar_path.
C6_DeleteStatus == [][DeleteStatuses(400)]_vars

C6_Witness ==
    \E p \in Procs : DeleteDone(p) /\ frame[p].resp = Http(400, "NoAvatar")
\* both racing uploads have answered 200
BothCommitted == \A p \in Procs : UploadDone(p) /\ frame[p].resp.status = 200

\* the other slot
Other(p) == CHOOSE q \in Procs : q # p

\* C7, as claimed (two racing uploads for one user): once both have
\* committed, the row names the path of the upload that committed last and
\* the other upload's file is on the disk, named by no row.
C7_LoserOrphanedAlways ==
    BothCommitted =>
        LET w == lastCommit
            l == Other(lastCommit)
        IN /\ users[RaceUser].avatar_path = frame[w].new_avatar_path
           /\ frame[l].new_avatar_path \in disk
           /\ ~Referenced(frame[l].new_avatar_path)

\* a finished upload's file that is on the disk and named by no row stays
\* on the disk
OrphanStays ==
    \A p \in Procs :
        (/\ frame[p].pc = "done"
         /\ frame[p].new_avatar_path \in disk
         /\ ~Referenced(frame[p].new_avatar_path))
        => frame[p].new_avatar_path \in disk'

\* C7, amended: once both have committed, the row names the path of the
\* upload that committed last; the other upload's file is an orphan (on the
\* disk, named by no row) when the last committer loaded the user before the
\* other's commit, and has been removed as the old avatar when the last
\* committer loaded the user after it.  No step removes an orphan.
C7_RacingUploads ==
    /\ [](BothCommitted =>
            LET w == lastCommit
                l == Other(lastCommit)
            IN /\ users[RaceUser].avatar_path = frame[w].new_avatar_path
               /\ frame[w].new_avatar_path \in disk
               /\ frame[w].user.avatar_path # frame[l].new_avatar_path
                  => /\ frame[l].new_avatar_path \in disk
                     /\ ~Referenced(frame[l].new_avatar_path)
               /\ frame[w].user.avatar_path = frame[l].new_avatar_path
                  => frame[l].new_avatar_path \notin disk)
    /\ [][OrphanStays]_vars

\* both committed, the last committer having loaded the user before the
\* other's commit: the other's file is orphaned
C7_Witness ==
    /\ BothCommitted
    /\ frame[lastCommit].user.avatar_path # frame[Other(lastCommit)].new_avatar_path
    /\ frame[Other(lastCommit)].new_avatar_path \in disk

\* C8, as claimed (concurrent create-user requests): no two rows share a username; a
\* create-user answered 200 has its row in the table; and a create-user that
\* hit no database failure and whose id is in no row (it added none, and no
\* other row took its id) was answered 400 DuplicateUsername.
C8_CreateUser ==
    /\ \A u, v \in DOMAIN users : users[u].username = users[v].username => u = v
    /\ \A p \in Procs :
          /\ (CreateDone(p) /\ frame[p].resp.status = 200)
             => /\ frame[p].user_id \in DOMAIN users
                /\ users[frame[p].user_id].username = frame[p].user.username
          /\ (CreateDone(p) /\ frame[p].fault = {} /\ frame[p].user_id \notin DOMAIN users)
             => frame[p].resp = Http(400, "DuplicateUsername")

\* C9, as claimed (sequential requests): between requests, every row whose
\* avatar_path the store wrote names a file on the disk, and no two rows
\* name the same file.
C9_NoDanglingReference ==
    Quiescent =>
        /\ \A u \in DOMAIN users :
              Stored(users[u].avatar_path) => users[u].avatar_path \in disk
        /\ \A u, v \in DOMAIN users :
              (Stored(users[u].avatar_path) /\ users[u].avatar_path = users[v].avatar_path)
              => u = v

\* C10, as claimed (sequential requests): an upload for an existing user
\* whose bytes passed validation and were written, and during which nothing
\* failed, answers 200, puts the new path on the row and leaves the new file
\* referenced.
C10_UploadRecovers ==
    \A p \in Procs :
        (/\ UploadDone(p)
         /\ frame[p].new_avatar_path # NoPath
         /\ frame[p].fault = {}
         /\ frame[p].user.avatar_path # ClientPath)
        => /\ frame[p].resp.status = 200
           /\ users[frame[p].user_id].avatar_path = frame[p].new_avatar_path
====
